---- MODULE Spec2Model ----
(***************************************************************************)
(* Model of PoisePollBot (src/src/main.rs): the `poll` slash command that  *)
(* publishes a poll message and persists its record, and the component     *)
(* interaction handler (the event_handler closure) that loads the record,  *)
(* answers the pressed button and saves the record back.                   *)
(*                                                                         *)
(* Handlers are independent tasks; a task is one step of the model at each *)
(* of its calls to the outside (persist.load, eph_text, persist.save), and *)
(* the steps of different tasks interleave freely.                         *)
(***************************************************************************)
EXTENDS Integers, Sequences, FiniteSets

(* ---------------------------- bounds ----------------------------------- *)
MaxPolls == 2
MaxTasks == 2
MaxActivations == 3

(* ---------------------------- inputs ----------------------------------- *)
MessageIds == 1..MaxPolls
Tasks == 1..MaxTasks
Users == {7, 9, 42}
CustomIds == {"poll_yes", "poll_no", "poll_view", "poll_bogus", "other"}
\* <<title, description, reason_to_vote_yes, reason_to_vote_no>>; no field is
\* validated, the empty string included.
PollInputs == {<<"T", "D", "", "N">>}

(* ------------------------ pure functions ------------------------------- *)
DigitChar == <<"0", "1", "2", "3", "4", "5", "6", "7", "8", "9">>

RECURSIVE to_string(_)
to_string(n) ==
    IF n < 10 THEN DigitChar[n + 1]
    ELSE to_string(n \div 10) \o DigitChar[(n % 10) + 1]

starts_with(s, prefix) ==
    /\ Len(s) >= Len(prefix)
    /\ SubSeq(s, 1, Len(prefix)) = prefix

any(votes, id) == \E i \in 1..Len(votes) : id = votes[i]

(* Variant of get_voted that looks at yes_votes only. *)
get_voted_yes_only(user, yes_votes, no_votes) == any(yes_votes, user)

(* Variant of get_voted that looks at no_votes only. *)
get_voted_no_only(user, yes_votes, no_votes) == any(no_votes, user)

get_voted(user, yes_votes, no_votes) ==
    any(yes_votes, user) \/ any(no_votes, user)

PollVote(id) == id

Poll(title, description, reason_to_vote_yes, reason_to_vote_no, yes_votes, no_votes) ==
    [title |-> title,
     description |-> description,
     reason_to_vote_yes |-> reason_to_vote_yes,
     reason_to_vote_no |-> reason_to_vote_no,
     yes_votes |-> yes_votes,
     no_votes |-> no_votes]

(* Variant of view_text with the two lengths exchanged. *)
view_text_swapped(p) ==
    "Yes: " \o to_string(Len(p.no_votes)) \o " No: " \o to_string(Len(p.yes_votes))

view_text(p) ==
    "Yes: " \o to_string(Len(p.yes_votes)) \o " No: " \o to_string(Len(p.no_votes))

(* A task's `poll` binding before line 154 has run. *)
NoPoll == Poll("", "", "", "", <<>>, <<>>)

(* ------------------------------ state ---------------------------------- *)
VARIABLES
    persist,      \* the PersistInstance: key (string) -> stored Poll
    cmd,          \* per message id: the `poll` command that publishes it
    pc,           \* per task: position of the handler
    interaction,  \* per task: [message_id, user, custom_id] of the event
    poll,         \* per task: the local `poll` binding
    origin,       \* per task: the record persist.load returned
    loaded,       \* per task: persist.load returned Ok in this task
    resp,         \* per task: texts sent by eph_text, in order
    saved,        \* per task: keys passed to a successful persist.save
    nact,         \* number of events handled so far
    reference     \* per message id: first votes in activation order (serial runs)

vars == <<persist, cmd, pc, interaction, poll, origin, loaded, resp, saved, nact, reference>>

Published(m) == cmd[m].pc # "none"
Free(h) == pc[h] \in {"idle", "done", "failed"}
NextMessageId == Cardinality({m \in MessageIds : Published(m)}) + 1

save(store, key, value) ==
    [k \in DOMAIN store \cup {key} |-> IF k = key THEN value ELSE store[k]]

NoInteraction == [kind |-> "None", message_id |-> 0, user |-> 0, custom_id |-> ""]

MessageComponent(m, u, cid) ==
    [kind |-> "MessageComponent", message_id |-> m, user |-> u, custom_id |-> cid]

poll_id(h) == to_string(interaction[h].message_id)

Init ==
    /\ persist = <<>>
    /\ cmd = [m \in MessageIds |-> [pc |-> "none", input |-> <<"", "", "", "">>]]
    /\ pc = [h \in Tasks |-> "idle"]
    /\ interaction = [h \in Tasks |-> NoInteraction]
    /\ poll = [h \in Tasks |-> NoPoll]
    /\ origin = [h \in Tasks |-> NoPoll]
    /\ loaded = [h \in Tasks |-> FALSE]
    /\ resp = [h \in Tasks |-> <<>>]
    /\ saved = [h \in Tasks |-> <<>>]
    /\ nact = 0
    /\ reference = [m \in MessageIds |-> [yes_votes |-> <<>>, no_votes |-> <<>>]]

(* ------------------------- the poll command ---------------------------- *)
(* Lines 69-80: ctx.send publishes the message with the three buttons.     *)
PollSend(input) ==
    /\ NextMessageId \in MessageIds
    /\ cmd' = [cmd EXCEPT ![NextMessageId] = [pc |-> "sent", input |-> input]]
    /\ UNCHANGED <<persist, pc, interaction, poll, origin, loaded, resp, saved, nact, reference>>

(* Variant of PollSave with the two reason fields exchanged. *)
PollSave_reasons_swapped(m) ==
    /\ cmd[m].pc = "sent"
    /\ persist' = save(persist, to_string(m),
                       Poll(cmd[m].input[1], cmd[m].input[2],
                            cmd[m].input[4], cmd[m].input[3], <<>>, <<>>))
    /\ cmd' = [cmd EXCEPT ![m].pc = "done"]
    /\ UNCHANGED <<pc, interaction, poll, origin, loaded, resp, saved, nact, reference>>

(* Lines 82-94: the record is saved under the message id, votes empty.     *)
PollSave(m) ==
    /\ cmd[m].pc = "sent"
    /\ persist' = save(persist, to_string(m),
                       Poll(cmd[m].input[1], cmd[m].input[2],
                            cmd[m].input[3], cmd[m].input[4], <<>>, <<>>))
    /\ cmd' = [cmd EXCEPT ![m].pc = "done"]
    /\ UNCHANGED <<pc, interaction, poll, origin, loaded, resp, saved, nact, reference>>

(* Lines 82, 93: reply.message() or persist.save returns Err.              *)
PollFail(m) ==
    /\ cmd[m].pc = "sent"
    /\ cmd' = [cmd EXCEPT ![m].pc = "failed"]
    /\ UNCHANGED <<persist, pc, interaction, poll, origin, loaded, resp, saved, nact, reference>>

(* ----------------------- the event handler ----------------------------- *)
(* A new event is given to the lowest free task.                           *)
Start(h) ==
    /\ Free(h)
    /\ \A g \in Tasks : g < h => ~Free(g)
    /\ nact < MaxActivations
    /\ nact' = nact + 1
    /\ resp' = [resp EXCEPT ![h] = <<>>]
    /\ saved' = [saved EXCEPT ![h] = <<>>]

(* Lines 145-148: an event that is no component interaction returns Ok.    *)
IgnoreEvent(h) ==
    /\ Start(h)
    /\ interaction' = [interaction EXCEPT ![h] = NoInteraction]
    /\ pc' = [pc EXCEPT ![h] = "done"]
    /\ poll' = [poll EXCEPT ![h] = NoPoll]
    /\ origin' = [origin EXCEPT ![h] = NoPoll]
    /\ loaded' = [loaded EXCEPT ![h] = FALSE]
    /\ UNCHANGED <<persist, cmd, reference>>

(* Variant of Load that falls back to an empty record when none is stored. *)
Load_or_default(h, m, u, cid) ==
    /\ Start(h)
    /\ Published(m)
    /\ interaction' = [interaction EXCEPT ![h] = MessageComponent(m, u, cid)]
    /\ poll' = [poll EXCEPT ![h] =
                  IF to_string(m) \in DOMAIN persist THEN persist[to_string(m)] ELSE NoPoll]
    /\ origin' = [origin EXCEPT ![h] =
                  IF to_string(m) \in DOMAIN persist THEN persist[to_string(m)] ELSE NoPoll]
    /\ loaded' = [loaded EXCEPT ![h] = TRUE]
    /\ pc' = [pc EXCEPT ![h] = "loaded"]
    /\ UNCHANGED <<persist, cmd>>

(* Lines 150-154: persist.load(poll_id) returns the stored record.         *)
Load(h, m, u, cid) ==
    /\ Start(h)
    /\ Published(m)
    /\ to_string(m) \in DOMAIN persist
    /\ interaction' = [interaction EXCEPT ![h] = MessageComponent(m, u, cid)]
    /\ poll' = [poll EXCEPT ![h] = persist[to_string(m)]]
    /\ origin' = [origin EXCEPT ![h] = persist[to_string(m)]]
    /\ loaded' = [loaded EXCEPT ![h] = TRUE]
    /\ pc' = [pc EXCEPT ![h] = "loaded"]
    /\ UNCHANGED <<persist, cmd>>

(* A handler started while others may be in flight. *)
Activate(h, m, u, cid) == Load(h, m, u, cid) /\ UNCHANGED reference

(* Line 154: persist.load returns Err (no record under the key, or the     *)
(* read or the decoding fails) and `?` ends the handler.                   *)
LoadFail(h, m, u, cid) ==
    /\ Start(h)
    /\ Published(m)
    /\ interaction' = [interaction EXCEPT ![h] = MessageComponent(m, u, cid)]
    /\ poll' = [poll EXCEPT ![h] = NoPoll]
    /\ origin' = [origin EXCEPT ![h] = NoPoll]
    /\ loaded' = [loaded EXCEPT ![h] = FALSE]
    /\ pc' = [pc EXCEPT ![h] = "failed"]
    /\ UNCHANGED <<persist, cmd, reference>>

eph_text(h, text) == resp' = [resp EXCEPT ![h] = Append(@, text)]

HasPrefix(h) == starts_with(interaction[h].custom_id, "poll_")
Voted(h) == get_voted(interaction[h].user, poll[h].yes_votes, poll[h].no_votes)

(* Lines 156-158. *)
UnknownId(h) ==
    /\ pc[h] = "loaded"
    /\ ~HasPrefix(h)
    /\ eph_text(h, "Unknown id")
    /\ pc' = [pc EXCEPT ![h] = "done"]
    /\ UNCHANGED <<persist, cmd, interaction, poll, origin, loaded, saved, nact, reference>>

(* Variant of AlreadyVoted without the `return`: goes on to line 199. *)
AlreadyVoted_no_return(h) ==
    /\ pc[h] = "loaded"
    /\ HasPrefix(h)
    /\ Voted(h)
    /\ eph_text(h, "You already voted!")
    /\ pc' = [pc EXCEPT ![h] = "save"]
    /\ UNCHANGED <<persist, cmd, interaction, poll, origin, loaded, saved, nact, reference>>

(* Lines 160-167. *)
AlreadyVoted(h) ==
    /\ pc[h] = "loaded"
    /\ HasPrefix(h)
    /\ Voted(h)
    /\ eph_text(h, "You already voted!")
    /\ pc' = [pc EXCEPT ![h] = "done"]
    /\ UNCHANGED <<persist, cmd, interaction, poll, origin, loaded, saved, nact, reference>>

(* Variant of VoteYes that puts the new vote in front of yes_votes. *)
VoteYes_prepend(h) ==
    /\ pc[h] = "loaded"
    /\ HasPrefix(h)
    /\ ~Voted(h)
    /\ interaction[h].custom_id = "poll_yes"
    /\ eph_text(h, "You voted yes!")
    /\ poll' = [poll EXCEPT ![h].yes_votes = <<PollVote(interaction[h].user)>> \o @]
    /\ pc' = [pc EXCEPT ![h] = "save"]
    /\ UNCHANGED <<persist, cmd, interaction, origin, loaded, saved, nact, reference>>

(* Lines 170-176. *)
VoteYes(h) ==
    /\ pc[h] = "loaded"
    /\ HasPrefix(h)
    /\ ~Voted(h)
    /\ interaction[h].custom_id = "poll_yes"
    /\ eph_text(h, "You voted yes!")
    /\ poll' = [poll EXCEPT ![h].yes_votes = @ \o <<PollVote(interaction[h].user)>>]
    /\ pc' = [pc EXCEPT ![h] = "save"]
    /\ UNCHANGED <<persist, cmd, interaction, origin, loaded, saved, nact, reference>>

(* Variant of VoteNo that assigns no_votes instead of appending to it. *)
VoteNo_overwrite(h) ==
    /\ pc[h] = "loaded"
    /\ HasPrefix(h)
    /\ ~Voted(h)
    /\ interaction[h].custom_id = "poll_no"
    /\ eph_text(h, "You voted no!")
    /\ poll' = [poll EXCEPT ![h].no_votes = <<PollVote(interaction[h].user)>>]
    /\ pc' = [pc EXCEPT ![h] = "save"]
    /\ UNCHANGED <<persist, cmd, interaction, origin, loaded, saved, nact, reference>>

(* Variant of VoteNo that appends to yes_votes (the poll_yes arm copied). *)
VoteNo_into_yes(h) ==
    /\ pc[h] = "loaded"
    /\ HasPrefix(h)
    /\ ~Voted(h)
    /\ interaction[h].custom_id = "poll_no"
    /\ eph_text(h, "You voted no!")
    /\ poll' = [poll EXCEPT ![h].yes_votes = @ \o <<PollVote(interaction[h].user)>>]
    /\ pc' = [pc EXCEPT ![h] = "save"]
    /\ UNCHANGED <<persist, cmd, interaction, origin, loaded, saved, nact, reference>>

(* Lines 177-183. *)
VoteNo(h) ==
    /\ pc[h] = "loaded"
    /\ HasPrefix(h)
    /\ ~Voted(h)
    /\ interaction[h].custom_id = "poll_no"
    /\ eph_text(h, "You voted no!")
    /\ poll' = [poll EXCEPT ![h].no_votes = @ \o <<PollVote(interaction[h].user)>>]
    /\ pc' = [pc EXCEPT ![h] = "save"]
    /\ UNCHANGED <<persist, cmd, interaction, origin, loaded, saved, nact, reference>>

(* Variant of ViewResults reached without the get_voted gate. *)
ViewResults_ungated(h) ==
    /\ pc[h] = "loaded"
    /\ HasPrefix(h)
    /\ interaction[h].custom_id = "poll_view"
    /\ eph_text(h, view_text(poll[h]))
    /\ pc' = [pc EXCEPT ![h] = "done"]
    /\ UNCHANGED <<persist, cmd, interaction, poll, origin, loaded, saved, nact, reference>>

(* Lines 184-195. *)
ViewResults(h) ==
    /\ pc[h] = "loaded"
    /\ HasPrefix(h)
    /\ ~Voted(h)
    /\ interaction[h].custom_id = "poll_view"
    /\ eph_text(h, view_text(poll[h]))
    /\ pc' = [pc EXCEPT ![h] = "done"]
    /\ UNCHANGED <<persist, cmd, interaction, poll, origin, loaded, saved, nact, reference>>

(* Line 196: the `_ => {}` arm sends nothing and falls through to line 199. *)
NoMatch(h) ==
    /\ pc[h] = "loaded"
    /\ HasPrefix(h)
    /\ ~Voted(h)
    /\ interaction[h].custom_id \notin {"poll_yes", "poll_no", "poll_view"}
    /\ pc' = [pc EXCEPT ![h] = "save"]
    /\ UNCHANGED <<persist, cmd, interaction, poll, origin, loaded, resp, saved, nact, reference>>

(* Variant of SendFail in which the vote arms drop the Err (no `?` on      *)
(* lines 172, 179) and go on to line 199.                                  *)
SendFail_ignored(h) ==
    /\ pc[h] = "loaded"
    /\ \/ ~HasPrefix(h)
       \/ Voted(h)
       \/ interaction[h].custom_id \in {"poll_yes", "poll_no", "poll_view"}
    /\ pc' = [pc EXCEPT ![h] =
                IF /\ HasPrefix(h) /\ ~Voted(h)
                   /\ interaction[h].custom_id \in {"poll_yes", "poll_no"}
                THEN "save" ELSE "failed"]
    /\ UNCHANGED <<persist, cmd, interaction, poll, origin, loaded, resp, saved, nact, reference>>

(* Lines 103-108: create_interaction_response returns Err; every caller    *)
(* propagates it (return on lines 157, 161, 185; `?` on lines 172, 179).   *)
SendFail(h) ==
    /\ pc[h] = "loaded"
    /\ \/ ~HasPrefix(h)
       \/ Voted(h)
       \/ interaction[h].custom_id \in {"poll_yes", "poll_no", "poll_view"}
    /\ pc' = [pc EXCEPT ![h] = "failed"]
    /\ UNCHANGED <<persist, cmd, interaction, poll, origin, loaded, resp, saved, nact, reference>>

(* Variant of Save that uses the user id as the key. *)
Save_user_key(h) ==
    /\ pc[h] = "save"
    /\ persist' = save(persist, to_string(interaction[h].user), poll[h])
    /\ saved' = [saved EXCEPT ![h] = Append(@, to_string(interaction[h].user))]
    /\ pc' = [pc EXCEPT ![h] = "done"]
    /\ UNCHANGED <<cmd, interaction, poll, origin, loaded, resp, nact, reference>>

(* Line 199: persist.save(poll_id, poll) returns Ok. *)
Save(h) ==
    /\ pc[h] = "save"
    /\ persist' = save(persist, poll_id(h), poll[h])
    /\ saved' = [saved EXCEPT ![h] = Append(@, poll_id(h))]
    /\ pc' = [pc EXCEPT ![h] = "done"]
    /\ UNCHANGED <<cmd, interaction, poll, origin, loaded, resp, nact, reference>>

(* Variant of SaveFail in which the record was written before the Err. *)
SaveFail_after_write(h) ==
    /\ pc[h] = "save"
    /\ persist' = save(persist, poll_id(h), poll[h])
    /\ saved' = [saved EXCEPT ![h] = Append(@, poll_id(h))]
    /\ pc' = [pc EXCEPT ![h] = "failed"]
    /\ UNCHANGED <<cmd, interaction, poll, origin, loaded, resp, nact, reference>>

(* Line 199: persist.save returns Err and `?` ends the handler. *)
SaveFail(h) ==
    /\ pc[h] = "save"
    /\ pc' = [pc EXCEPT ![h] = "failed"]
    /\ UNCHANGED <<persist, cmd, interaction, poll, origin, loaded, resp, saved, nact, reference>>

Next ==
    \/ \E input \in PollInputs : PollSend(input)
    \/ \E m \in MessageIds : PollSave(m)
    \/ \E m \in MessageIds : PollFail(m)
    \/ \E h \in Tasks : IgnoreEvent(h)
    \/ \E h \in Tasks, m \in MessageIds, u \in Users, cid \in CustomIds : Activate(h, m, u, cid)
    \/ \E h \in Tasks, m \in MessageIds, u \in Users, cid \in CustomIds : LoadFail(h, m, u, cid)
    \/ \E h \in Tasks : UnknownId(h)
    \/ \E h \in Tasks : AlreadyVoted(h)
    \/ \E h \in Tasks : VoteYes(h)
    \/ \E h \in Tasks : VoteNo(h)
    \/ \E h \in Tasks : ViewResults(h)
    \/ \E h \in Tasks : NoMatch(h)
    \/ \E h \in Tasks : SendFail(h)
    \/ \E h \in Tasks : Save(h)
    \/ \E h \in Tasks : SaveFail(h)

Spec == Init /\ [][Next]_vars

(* ---------------- handlers one at a time, no fault --------------------- *)
NoneInFlight == \A g \in Tasks : Free(g)

(* The reference tally: the first poll_yes / poll_no activation of a voter *)
(* on a poll is appended to the sequence it names; any other is ignored.   *)
Tally(ref, m, u, cid) ==
    IF /\ cid \in {"poll_yes", "poll_no"}
       /\ \A i \in 1..Len(ref[m].yes_votes) : ref[m].yes_votes[i] # u
       /\ \A i \in 1..Len(ref[m].no_votes) : ref[m].no_votes[i] # u
    THEN IF cid = "poll_yes"
         THEN [ref EXCEPT ![m].yes_votes = Append(@, u)]
         ELSE [ref EXCEPT ![m].no_votes = Append(@, u)]
    ELSE ref

SerialActivate(h, m, u, cid) ==
    /\ NoneInFlight
    /\ Load(h, m, u, cid)
    /\ reference' = Tally(reference, m, u, cid)

SerialIgnoreEvent(h) == NoneInFlight /\ IgnoreEvent(h)

NextSerial ==
    \/ \E input \in PollInputs : PollSend(input)
    \/ \E m \in MessageIds : PollSave(m)
    \/ \E h \in Tasks : SerialIgnoreEvent(h)
    \/ \E h \in Tasks, m \in MessageIds, u \in Users, cid \in CustomIds :
          SerialActivate(h, m, u, cid)
    \/ \E h \in Tasks : UnknownId(h)
    \/ \E h \in Tasks : AlreadyVoted(h)
    \/ \E h \in Tasks : VoteYes(h)
    \/ \E h \in Tasks : VoteNo(h)
    \/ \E h \in Tasks : ViewResults(h)
    \/ \E h \in Tasks : NoMatch(h)
    \/ \E h \in Tasks : Save(h)

SpecSerial == Init /\ [][NextSerial]_vars

(* ------------------------------ claims --------------------------------- *)
Occurrences(votes, u) == Cardinality({i \in 1..Len(votes) : votes[i] = u})
InYes(p, u) == Occurrences(p.yes_votes, u) > 0
InNo(p, u) == Occurrences(p.no_votes, u) > 0
InEither(p, u) == InYes(p, u) \/ InNo(p, u)

Component(h) == interaction[h].kind = "MessageComponent"
User(h) == interaction[h].user
CustomId(h) == interaction[h].custom_id
SamePoll(g, h) == interaction[g].message_id = interaction[h].message_id

(* C1: in every reachable state, every persisted record holds every voter  *)
(* at most once over yes_votes and no_votes together.                      *)
C1_SingleVote ==
    \A k \in DOMAIN persist : \A u \in Users :
        Occurrences(persist[k].yes_votes, u) + Occurrences(persist[k].no_votes, u) <= 1

(* Two handlers of the same voter on the same poll, one for poll_yes and   *)
(* one for poll_no, were in flight together and have both saved.           *)
C1_Witness ==
    \E g, h \in Tasks :
        /\ g # h /\ Component(g) /\ Component(h) /\ SamePoll(g, h)
        /\ User(g) = User(h)
        /\ CustomId(g) = "poll_yes" /\ CustomId(h) = "poll_no"
        /\ saved[g] # <<>> /\ saved[h] # <<>>

(* C2 as stated: a voter found in yes_votes (no_votes) of a persisted      *)
(* record is found there in the next state, whatever step is taken.        *)
C2_Terminal ==
    [][\A k \in DOMAIN persist : \A u \in Users :
          /\ InYes(persist[k], u) => InYes(persist'[k], u)
          /\ InNo(persist[k], u) => InNo(persist'[k], u)]_vars

SaveStep(h, k) == pc[h] = "save" /\ pc'[h] = "done" /\ poll_id(h) = k

(* C2 amended: a voter leaves yes_votes (no_votes) of a persisted record   *)
(* only by the save of a handler whose loaded record did not contain that  *)
(* voter in that sequence; every other step keeps the voter where it is.   *)
C2_TerminalUnlessStale ==
    [][\A k \in DOMAIN persist : \A u \in Users :
          /\ (InYes(persist[k], u) /\ ~InYes(persist'[k], u))
                => \E h \in Tasks : SaveStep(h, k) /\ ~InYes(origin[h], u)
          /\ (InNo(persist[k], u) /\ ~InNo(persist'[k], u))
                => \E h \in Tasks : SaveStep(h, k) /\ ~InNo(origin[h], u)]_vars

(* A handler that loaded a record holding a vote has saved, and the        *)
(* persisted record holds that earlier vote and the new one.               *)
C2_Witness ==
    \E h \in Tasks : \E u \in Users :
        /\ Component(h) /\ pc[h] = "done" /\ saved[h] # <<>>
        /\ InEither(origin[h], u) /\ u # User(h)
        /\ InEither(persist[poll_id(h)], u)
        /\ InEither(persist[poll_id(h)], User(h))

AlreadyVotedText == "You already voted!"

(* C3: a poll_yes or poll_no handler whose loaded record holds its voter   *)
(* never saves, never changes its in-memory record, sends nothing but      *)
(* "You already voted!", and has sent exactly that when it returns.        *)
C3_IdempotentRejection ==
    \A h \in Tasks :
        (/\ Component(h) /\ loaded[h]
         /\ CustomId(h) \in {"poll_yes", "poll_no"}
         /\ InEither(origin[h], User(h)))
        => /\ saved[h] = <<>>
           /\ poll[h] = origin[h]
           /\ pc[h] \in {"loaded", "done", "failed"}
           /\ pc[h] = "done" => resp[h] = <<AlreadyVotedText>>
           /\ pc[h] # "done" => resp[h] = <<>>

(* The same voter, already in the record, has repeated the vote twice (one *)
(* poll_yes, one poll_no) and both handlers have returned.                 *)
C3_Witness ==
    \E g, h \in Tasks :
        /\ g # h /\ Component(g) /\ Component(h) /\ SamePoll(g, h)
        /\ User(g) = User(h)
        /\ CustomId(g) = "poll_yes" /\ CustomId(h) = "poll_no"
        /\ loaded[g] /\ loaded[h]
        /\ InEither(origin[g], User(g)) /\ InEither(origin[h], User(h))
        /\ pc[g] = "done" /\ pc[h] = "done"
        /\ persist[poll_id(h)] = origin[h]

(* The text the claim names for y yes-votes and n no-votes. *)
ExpectedView(y, n) ==
    CASE y = 0 /\ n = 0 -> "Yes: 0 No: 0"
      [] y = 1 /\ n = 0 -> "Yes: 1 No: 0"
      [] y = 0 /\ n = 1 -> "Yes: 0 No: 1"
      [] y = 2 /\ n = 0 -> "Yes: 2 No: 0"
      [] y = 1 /\ n = 1 -> "Yes: 1 No: 1"
      [] y = 0 /\ n = 2 -> "Yes: 0 No: 2"
      [] OTHER -> "out of range"

(* C4: a poll_view handler whose voter is in neither sequence of the       *)
(* loaded record never saves or changes its record, and when it returns    *)
(* it has sent exactly "Yes: y No: n" for the lengths of the loaded        *)
(* sequences.                                                              *)
C4_ViewCounts ==
    \A h \in Tasks :
        (/\ Component(h) /\ loaded[h]
         /\ CustomId(h) = "poll_view"
         /\ ~InEither(origin[h], User(h)))
        => /\ saved[h] = <<>>
           /\ poll[h] = origin[h]
           /\ pc[h] \in {"loaded", "done", "failed"}
           /\ pc[h] = "done" =>
                 resp[h] = <<ExpectedView(Len(origin[h].yes_votes),
                                          Len(origin[h].no_votes))>>
           /\ pc[h] # "done" => resp[h] = <<>>

(* A view by a non-voter has returned on a record with one yes and one no. *)
C4_Witness ==
    \E h \in Tasks :
        /\ Component(h) /\ loaded[h] /\ pc[h] = "done"
        /\ CustomId(h) = "poll_view"
        /\ ~InEither(origin[h], User(h))
        /\ Len(origin[h].yes_votes) = 1 /\ Len(origin[h].no_votes) = 1
        /\ resp[h] = <<"Yes: 1 No: 1">>

(* C5: a poll_view handler whose voter is in the loaded record never saves *)
(* or changes its record, sends nothing but "You already voted!" (never a  *)
(* result text), and has sent exactly that when it returns.                *)
C5_GateBeforeView ==
    \A h \in Tasks :
        (/\ Component(h) /\ loaded[h]
         /\ CustomId(h) = "poll_view"
         /\ InEither(origin[h], User(h)))
        => /\ saved[h] = <<>>
           /\ poll[h] = origin[h]
           /\ pc[h] \in {"loaded", "done", "failed"}
           /\ pc[h] = "done" => resp[h] = <<AlreadyVotedText>>
           /\ pc[h] # "done" => resp[h] = <<>>

(* A voter who is in no_votes has pressed view and the handler returned.   *)
C5_Witness ==
    \E h \in Tasks :
        /\ Component(h) /\ loaded[h] /\ pc[h] = "done"
        /\ CustomId(h) = "poll_view"
        /\ InNo(origin[h], User(h))
        /\ resp[h] # <<>>

KnownIds == {"poll_yes", "poll_no", "poll_view"}
PrefixedUnknown(h) ==
    /\ Component(h)
    /\ starts_with(CustomId(h), "poll_")
    /\ CustomId(h) \notin KnownIds

(* C6: the handler of a component activation whose custom id does not      *)
(* start with "poll_" loads no record, saves nothing and sends nothing.    *)
C6_UnknownActionIsolation ==
    \A h \in Tasks :
        (Component(h) /\ ~starts_with(CustomId(h), "poll_"))
        => /\ ~loaded[h]
           /\ saved[h] = <<>>
           /\ resp[h] = <<>>

(* C7: a returned handler of an activation whose custom id starts with     *)
(* "poll_" but is no known id has sent exactly "Unknown id".               *)
C7_UnknownIdAnswered ==
    \A h \in Tasks :
        (PrefixedUnknown(h) /\ pc[h] = "done") => resp[h] = <<"Unknown id">>

(* C8: the handler of an activation whose custom id starts with "poll_"    *)
(* but is no known id performs no persistence write.                       *)
C8_UnknownIdNoWrite ==
    \A h \in Tasks : PrefixedUnknown(h) => saved[h] = <<>>

(* C9: a handler of a component activation that has returned without a     *)
(* fault has sent exactly one response.                                    *)
C9_ExactlyOneResponse ==
    \A h \in Tasks :
        (Component(h) /\ pc[h] = "done") => Len(resp[h]) = 1

VoteAck(cid) == IF cid = "poll_yes" THEN "You voted yes!" ELSE "You voted no!"

InChosen(p, u, cid) == IF cid = "poll_yes" THEN InYes(p, u) ELSE InNo(p, u)

(* Two handlers of different voters on one poll, both for poll_yes or      *)
(* poll_no, loaded the same record and were both acknowledged.             *)
RacePair(g, h) ==
    /\ g # h /\ Component(g) /\ Component(h) /\ SamePoll(g, h)
    /\ User(g) # User(h)
    /\ CustomId(g) \in {"poll_yes", "poll_no"}
    /\ CustomId(h) \in {"poll_yes", "poll_no"}
    /\ loaded[g] /\ loaded[h]
    /\ origin[g] = origin[h]
    /\ resp[g] = <<VoteAck(CustomId(g))>>
    /\ resp[h] = <<VoteAck(CustomId(h))>>

(* C10: when two such handlers have loaded the same record and one has     *)
(* saved, the save of the other leaves a persisted record that holds the   *)
(* second saver's vote in the sequence it chose, everything the common     *)
(* loaded record held, and not the first saver's vote.                     *)
C10_LostUpdate ==
    [][\A g, h \in Tasks :
          (/\ RacePair(g, h)
           /\ pc[g] = "done" /\ saved[g] = <<poll_id(g)>>
           /\ SaveStep(h, poll_id(h)))
          => /\ saved'[h] = <<poll_id(h)>>
             /\ InChosen(persist'[poll_id(h)], User(h), CustomId(h))
             /\ ~InEither(persist'[poll_id(h)], User(g))
             /\ Len(persist'[poll_id(h)].yes_votes) + Len(persist'[poll_id(h)].no_votes)
                  = Len(origin[h].yes_votes) + Len(origin[h].no_votes) + 1]_vars

(* Both handlers of a race pair have saved; the record holds the vote of   *)
(* the one that saved last and not the other vote.                         *)
C10_Witness ==
    \E g, h \in Tasks :
        /\ RacePair(g, h)
        /\ pc[g] = "done" /\ saved[g] = <<poll_id(g)>>
        /\ pc[h] = "done" /\ saved[h] = <<poll_id(h)>>
        /\ InChosen(persist[poll_id(h)], User(h), CustomId(h))
        /\ ~InEither(persist[poll_id(h)], User(g))

(* A handler step that ends the handler of task h in a fault. *)
EndsInFault(h) == pc'[h] = "failed" /\ (pc[h] # "failed" \/ nact' # nact)

(* C11: the step that ends a handler in a fault (load, response or save    *)
(* failed) changes no persisted record, and that handler has written       *)
(* nothing before it; a fault at the response comes from the position      *)
(* before the save, with the in-memory record still as loaded.             *)
C11_NoPartialApplication ==
    [][\A h \in Tasks :
          EndsInFault(h)
          => /\ persist' = persist
             /\ saved'[h] = <<>>
             /\ (pc[h] = "loaded" /\ nact' = nact)
                   => (resp'[h] = <<>> /\ poll'[h] = origin'[h])]_vars

(* A vote handler was acknowledged, its save failed, and the persisted     *)
(* record is still the record it loaded.                                   *)
C11_Witness ==
    \E h \in Tasks :
        /\ Component(h) /\ pc[h] = "failed" /\ loaded[h]
        /\ CustomId(h) \in {"poll_yes", "poll_no"}
        /\ resp[h] = <<VoteAck(CustomId(h))>>
        /\ poll[h] # origin[h]
        /\ persist[poll_id(h)] = origin[h]

(* The key the claims name for message id m. *)
ExpectedKey(m) ==
    CASE m = 1 -> "1" [] m = 2 -> "2" [] m = 3 -> "3" [] OTHER -> "out of range"

(* C12: before the save of a poll command no record exists under the key   *)
(* of its message; the save stores under that key the four supplied texts  *)
(* with yes_votes = <<>> and no_votes = <<>>, and touches no other key.    *)
C12_Creation ==
    [][\A m \in MessageIds :
          /\ cmd[m].pc # "done" => ExpectedKey(m) \notin DOMAIN persist
          /\ (cmd[m].pc = "sent" /\ cmd'[m].pc = "done")
                => /\ DOMAIN persist' = DOMAIN persist \cup {ExpectedKey(m)}
                   /\ persist'[ExpectedKey(m)] =
                         [title |-> cmd[m].input[1],
                          description |-> cmd[m].input[2],
                          reason_to_vote_yes |-> cmd[m].input[3],
                          reason_to_vote_no |-> cmd[m].input[4],
                          yes_votes |-> <<>>,
                          no_votes |-> <<>>]
                   /\ \A k \in DOMAIN persist : persist'[k] = persist[k]]_vars

(* A poll with an empty text field was created and its record is stored.   *)
C12_Witness ==
    \E m \in MessageIds :
        /\ cmd[m].pc = "done"
        /\ cmd[m].input[3] = ""
        /\ ExpectedKey(m) \in DOMAIN persist
        /\ persist[ExpectedKey(m)].title = "T"
        /\ persist[ExpectedKey(m)].reason_to_vote_yes = ""

(* C13: when handlers run one at a time without fault, between handlers    *)
(* every stored record holds in yes_votes (no_votes) exactly the voters    *)
(* whose first vote activation was poll_yes (poll_no), in activation       *)
(* order, and every acknowledged voter is in the sequence acknowledged.    *)
C13_SerialTally ==
    NoneInFlight =>
        /\ \A m \in MessageIds :
              ExpectedKey(m) \in DOMAIN persist
              => /\ persist[ExpectedKey(m)].yes_votes = reference[m].yes_votes
                 /\ persist[ExpectedKey(m)].no_votes = reference[m].no_votes
        /\ \A h \in Tasks :
              (/\ Component(h) /\ pc[h] = "done"
               /\ CustomId(h) \in {"poll_yes", "poll_no"}
               /\ resp[h] = <<VoteAck(CustomId(h))>>)
              => InChosen(persist[poll_id(h)], User(h), CustomId(h))

(* Three activations were handled in turn; two voters are in yes_votes of  *)
(* one poll in the order they voted, the larger user id first.             *)
C13_Witness ==
    \E m \in MessageIds : \E h \in Tasks :
        /\ NoneInFlight
        /\ ExpectedKey(m) \in DOMAIN persist
        /\ Len(persist[ExpectedKey(m)].yes_votes) = 2
        /\ reference[m].yes_votes = persist[ExpectedKey(m)].yes_votes
        /\ persist[ExpectedKey(m)].yes_votes[1] > persist[ExpectedKey(m)].yes_votes[2]
        /\ nact = 3

(* The loaded record with voter u appended to the sequence cid names. *)
WithVote(p, u, cid) ==
    IF cid = "poll_yes"
    THEN [p EXCEPT !.yes_votes = Append(@, u)]
    ELSE [p EXCEPT !.no_votes = Append(@, u)]

(* C14: in a poll_yes / poll_no handler the in-memory record differs from  *)
(* the loaded one, the save is reached, or a save has happened, only after *)
(* the load and the "You voted ...!" response; the record then is the      *)
(* loaded one with the voter appended, and the save is under the loaded    *)
(* key, once.                                                              *)
C14_StepOrder ==
    \A h \in Tasks :
        (/\ Component(h)
         /\ CustomId(h) \in {"poll_yes", "poll_no"}
         /\ (pc[h] = "save" \/ saved[h] # <<>> \/ poll[h] # origin[h]))
        => /\ loaded[h]
           /\ ~InEither(origin[h], User(h))
           /\ resp[h] = <<VoteAck(CustomId(h))>>
           /\ poll[h] = WithVote(origin[h], User(h), CustomId(h))
           /\ saved[h] \in {<<>>, <<ExpectedKey(interaction[h].message_id)>>}
           /\ saved[h] # <<>> => pc[h] = "done"

(* A voter was told the vote was recorded, the save failed, and the        *)
(* persisted record does not contain the voter.                            *)
C14_Witness ==
    \E h \in Tasks :
        /\ Component(h) /\ pc[h] = "failed" /\ loaded[h]
        /\ CustomId(h) = "poll_yes"
        /\ resp[h] = <<"You voted yes!">>
        /\ InYes(poll[h], User(h))
        /\ ~InEither(persist[poll_id(h)], User(h))

IsVoteAck(h) == resp[h] \in {<<"You voted yes!">>, <<"You voted no!">>}

(* C15 as stated: no two handlers of one voter on one poll have both sent  *)
(* a "You voted ...!" response.                                            *)
C15_AtMostOneAck ==
    \A g, h \in Tasks :
        (/\ g # h /\ Component(g) /\ Component(h) /\ SamePoll(g, h)
         /\ User(g) = User(h))
        => ~(IsVoteAck(g) /\ IsVoteAck(h))

(* C15 amended: a "You voted ...!" response is sent only by a poll_yes /   *)
(* poll_no handler whose loaded record does not contain the voter, and a   *)
(* poll_yes / poll_no handler whose loaded record contains the voter sends *)
(* nothing but "You already voted!".                                       *)
C15_AckOnlyIfNotInLoaded ==
    \A h \in Tasks :
        (Component(h) /\ loaded[h])
        => /\ IsVoteAck(h)
                => /\ CustomId(h) \in {"poll_yes", "poll_no"}
                   /\ resp[h] = <<VoteAck(CustomId(h))>>
                   /\ ~InEither(origin[h], User(h))
           /\ (CustomId(h) \in {"poll_yes", "poll_no"} /\ InEither(origin[h], User(h)))
                => resp[h] \in {<<>>, <<AlreadyVotedText>>}

(* One voter has one acknowledged handler whose vote is persisted in       *)
(* no_votes and a later vote handler that was rejected.                    *)
C15_Witness ==
    \E g, h \in Tasks :
        /\ g # h /\ Component(g) /\ Component(h) /\ SamePoll(g, h)
        /\ User(g) = User(h)
        /\ loaded[g] /\ loaded[h]
        /\ CustomId(g) = "poll_no" /\ IsVoteAck(g) /\ saved[g] # <<>>
        /\ CustomId(h) = "poll_yes" /\ InNo(origin[h], User(h))
        /\ pc[h] = "done" /\ resp[h] = <<AlreadyVotedText>>

(* C16: while the poll command of a message has not saved, no handler of   *)
(* an activation on that message has loaded, responded or written (it      *)
(* failed at the load); the command's save finds no record under its key   *)
(* and stores empty vote sequences; and a stored record changes only by    *)
(* the save of a handler.                                                  *)
C16_CreationErasesNothing ==
    [][/\ \A h \in Tasks :
            (Component(h) /\ cmd[interaction[h].message_id].pc # "done")
            => /\ pc[h] = "failed" /\ ~loaded[h]
               /\ resp[h] = <<>> /\ saved[h] = <<>>
       /\ \A m \in MessageIds :
            (cmd[m].pc = "sent" /\ cmd'[m].pc = "done")
            => /\ ExpectedKey(m) \notin DOMAIN persist
               /\ persist'[ExpectedKey(m)].yes_votes = <<>>
               /\ persist'[ExpectedKey(m)].no_votes = <<>>
       /\ \A k \in DOMAIN persist :
            persist'[k] # persist[k] => \E h \in Tasks : SaveStep(h, k)]_vars

(* A button of a published poll message was pressed before the command     *)
(* saved the record: the handler failed at the load.                       *)
C16_Witness ==
    \E h \in Tasks :
        /\ Component(h)
        /\ cmd[interaction[h].message_id].pc = "sent"
        /\ CustomId(h) = "poll_yes"
        /\ pc[h] = "failed" /\ ~loaded[h]

TextFields(p) == <<p.title, p.description, p.reason_to_vote_yes, p.reason_to_vote_no>>

(* C17: a handler step changes the store only if it is the handler's save; *)
(* the save is the handler's only write, is under the key of the message   *)
(* of its activation, leaves every other record as it is, and stores the   *)
(* four text fields of the record the handler loaded.                      *)
C17_HandlerFrame ==
    [][\A h \in Tasks :
          pc'[h] # pc[h]
          => IF pc[h] = "save" /\ pc'[h] = "done"
             THEN /\ saved[h] = <<>>
                  /\ saved'[h] = <<ExpectedKey(interaction[h].message_id)>>
                  /\ DOMAIN persist' = DOMAIN persist
                  /\ \A q \in DOMAIN persist :
                        q # ExpectedKey(interaction[h].message_id)
                        => persist'[q] = persist[q]
                  /\ TextFields(persist'[ExpectedKey(interaction[h].message_id)])
                        = TextFields(origin[h])
             ELSE /\ persist' = persist
                  /\ saved'[h] = saved[h] \/ saved'[h] = <<>>]_vars

(* A handler has saved a vote on poll 2 while poll 1 holds a vote; both    *)
(* records carry the texts they were created with.                         *)
C17_Witness ==
    \E h \in Tasks :
        /\ Component(h) /\ pc[h] = "done"
        /\ saved[h] = <<"2">>
        /\ "1" \in DOMAIN persist
        /\ CustomId(h) \in {"poll_yes", "poll_no"}
        /\ Len(persist["1"].yes_votes) + Len(persist["1"].no_votes) = 1
        /\ InEither(persist["2"], User(h))
        /\ TextFields(persist["2"]) = <<"T", "D", "", "N">>

====
